---------------------------- MODULE Spec2Model ----------------------------
(***************************************************************************)
(* Model of getDefinition (lumen/EIR/Builder/ModuleBuilderSupport.h), the  *)
(* recursive search for the Operation that defines a Value.                *)
(*                                                                         *)
(* The control-flow graph is the input.  It is a list of branch edges in   *)
(* use-list order: the edges leaving a block, in list order, are the       *)
(* successors of its terminator, and the edges entering a block, in list   *)
(* order, are the block's predecessor list (one entry per edge, so a       *)
(* predecessor with two edges into the block is listed twice).  Every      *)
(* block has one block argument (argument number 0) and every terminator   *)
(* with successors implements BranchOpInterface; a successor without       *)
(* operands is an edge whose operand is NoOperands.                        *)
(*                                                                         *)
(* The recursion of getDefinition is an explicit call stack.  The machine  *)
(* stack is finite: a call at depth MaxDepth overflows it.                 *)
(***************************************************************************)
EXTENDS Integers, Sequences, FiniteSets

\* Bounds of the model.
NumBlocks == 3
NumOps == 2
MaxEdges == 3

\* Deeper than any recursion over distinct values: NumBlocks block
\* arguments and one operation result.
MaxDepth == NumBlocks + 2

Blocks == 1 .. NumBlocks

\* The first block of the function.
EntryBlock == CHOOSE b \in Blocks : \A c \in Blocks : b <= c

Operations == 1 .. NumOps

\* nullptr, the "no definition" result.
Null == 0

BlockArguments == {<<"arg", b>> : b \in Blocks}
OpResults == {<<"res", o>> : o \in Operations}
Values == BlockArguments \cup OpResults

\* getSuccessorOperands(...) without a value.
NoOperands == <<"none", 0>>

Edge == [src : Blocks, dst : Blocks, operand : Values \cup {NoOperands}]

\* The graphs of n edges.
Graphs(n) == [1 .. n -> Edge]

\* The values getDefinition is called on: the argument of the entry block,
\* the argument of another block and the result of an operation.  The
\* graphs are closed under renaming the blocks other than the entry block
\* and under renaming the operations, so these stand for every value.
Queried == {<<"arg", EntryBlock>>, <<"arg", EntryBlock + 1>>, <<"res", 1>>}

VARIABLES
    edges,      \* the control-flow graph: the branch edges, in use-list order
    root,       \* the value getDefinition is called on
    stack,      \* the frames of the calls of getDefinition in progress
    pc,         \* "run", "done" (the outermost call returned), "overflow"
    ret,        \* what the outermost call returned
    walked,     \* the blocks pred->walk was run on
    resolved    \* <<value, operation>>: the calls that returned, with their results

vars == <<edges, root, stack, pc, ret, walked, resolved>>

---------------------------------------------------------------------------
\* The graph queries getDefinition makes.

isBlockArgument(val) == val[1] = "arg"

getOwner(arg) == arg[2]

\* The check for the entry block left out.
isEntryBlock_Never(block) == FALSE

isEntryBlock(block) == block = EntryBlock

IntoBlock(block) == SelectSeq(edges, LAMBDA e : e.dst = block)

getPredecessors(block) ==
    [i \in 1 .. Len(IntoBlock(block)) |-> IntoBlock(block)[i].src]

hasNoPredecessors(block) == Len(getPredecessors(block)) = 0

Successors(pred) == SelectSeq(edges, LAMBDA e : e.src = pred)

getSuccessorOperands(pred, k) == Successors(pred)[k].operand

\* The recursive call made on the argument itself instead of the operand.
Candidate_Self(arg, pred, k) == arg

Candidate(arg, pred, k) == getSuccessorOperands(pred, k)

\* The defining operation lost.
getDefiningOp_Null(val) == Null

getDefiningOp(val) == IF val[1] = "res" THEN val[2] ELSE Null

---------------------------------------------------------------------------
\* The frame of one call: the value, the position in the loop over the
\* predecessors, the position in the loop over pred's successors, and the
\* locals result and found.

NewFrame(val) ==
    [val |-> val, pred |-> 1, succ |-> 1, result |-> Null, found |-> Null]

Top == stack[Len(stack)]

TopBlock == getOwner(Top.val)

TopPred == getPredecessors(TopBlock)[Top.pred]

InLoop ==
    /\ pc = "run"
    /\ isBlockArgument(Top.val)
    /\ ~isEntryBlock(TopBlock)
    /\ ~hasNoPredecessors(TopBlock)

\* The callback's use of the callee's result: a second, different
\* definition among pred's edges interrupts the walk and leaves found as
\* it was; otherwise found is the callee's result.
Interrupts(found, def) == found # Null /\ def # found

\* The function returning the accumulated result after the loop.
AfterWalk_ReturnResult(result, found, last) ==
    IF result # Null /\ found # result
    THEN [return |-> TRUE, value |-> Null, result |-> result]
    ELSE [return |-> last, value |-> found, result |-> found]

\* No conflict check: the definition found through the last predecessor wins.
AfterWalk_LastWins(result, found, last) ==
    [return |-> last, value |-> found, result |-> found]

\* The end of one iteration of the loop over the predecessors: a conflict
\* with the earlier predecessors returns nullptr; after the last
\* predecessor the function returns nullptr.
AfterWalk(result, found, last) ==
    IF result # Null /\ found # result
    THEN [return |-> TRUE, value |-> Null, result |-> result]
    ELSE [return |-> last, value |-> Null, result |-> found]

\* The call on top of the stack returns def to its caller, which is inside
\* the callback of its walk; the outermost call returns to the user.  The
\* callback returns WalkResult::interrupt() on a conflict and no value
\* otherwise; the terminator is the last operation of pred, so whatever
\* the walk reads as the callback's result, it has nothing left to visit.
Return(def) ==
    /\ resolved' = resolved \cup {<<Top.val, def>>}
    /\ IF Len(stack) = 1
       THEN /\ pc' = "done"
            /\ ret' = def
            /\ stack' = stack
       ELSE LET n == Len(stack) - 1
                caller == stack[n]
                ends == Len(Successors(getPredecessors(getOwner(caller.val))[caller.pred])) + 1
            IN  /\ stack' =
                     [SubSeq(stack, 1, n) EXCEPT ![n] =
                        IF Interrupts(caller.found, def)
                        THEN [caller EXCEPT !.succ = ends]
                        ELSE [caller EXCEPT !.found = def, !.succ = caller.succ + 1]]
                /\ UNCHANGED <<pc, ret>>

---------------------------------------------------------------------------
Init ==
    /\ \E n \in 0 .. MaxEdges : edges \in Graphs(n)
    /\ root \in Queried
    /\ stack = <<NewFrame(root)>>
    /\ pc = "run"
    /\ ret = Null
    /\ walked = {}
    /\ resolved = {}

\* val is not a block argument: return val.getDefiningOp().
ReturnDefiningOp ==
    /\ pc = "run"
    /\ ~isBlockArgument(Top.val)
    /\ Return(getDefiningOp(Top.val))
    /\ UNCHANGED <<edges, root, walked>>

\* The argument's block is the entry block.
ReturnEntryBlock ==
    /\ pc = "run"
    /\ isBlockArgument(Top.val)
    /\ isEntryBlock(TopBlock)
    /\ Return(Null)
    /\ UNCHANGED <<edges, root, walked>>

\* The argument's block has no predecessors.
ReturnNoPredecessors ==
    /\ pc = "run"
    /\ isBlockArgument(Top.val)
    /\ ~isEntryBlock(TopBlock)
    /\ hasNoPredecessors(TopBlock)
    /\ Return(Null)
    /\ UNCHANGED <<edges, root, walked>>

\* One successor of pred that is another block, or that has no operands.
SkipSuccessor ==
    /\ InLoop
    /\ Top.succ <= Len(Successors(TopPred))
    /\ \/ Successors(TopPred)[Top.succ].dst # TopBlock
       \/ getSuccessorOperands(TopPred, Top.succ) = NoOperands
    /\ stack' = [stack EXCEPT ![Len(stack)].succ = Top.succ + 1]
    /\ walked' = walked \cup {TopPred}
    /\ UNCHANGED <<edges, root, pc, ret, resolved>>

\* One successor of pred that is our block: the recursive call on the
\* operand passed for the argument.
Recurse ==
    /\ InLoop
    /\ Top.succ <= Len(Successors(TopPred))
    /\ Successors(TopPred)[Top.succ].dst = TopBlock
    /\ getSuccessorOperands(TopPred, Top.succ) # NoOperands
    /\ Len(stack) < MaxDepth
    /\ stack' = Append(stack, NewFrame(Candidate(Top.val, TopPred, Top.succ)))
    /\ walked' = walked \cup {TopPred}
    /\ UNCHANGED <<edges, root, pc, ret, resolved>>

\* The same call with the machine stack exhausted.
StackOverflow ==
    /\ InLoop
    /\ Top.succ <= Len(Successors(TopPred))
    /\ Successors(TopPred)[Top.succ].dst = TopBlock
    /\ getSuccessorOperands(TopPred, Top.succ) # NoOperands
    /\ Len(stack) = MaxDepth
    /\ pc' = "overflow"
    /\ walked' = walked \cup {TopPred}
    /\ UNCHANGED <<edges, root, stack, ret, resolved>>

\* The walk of pred is over: the conflict check, then the next
\* predecessor or the return after the loop.
EndWalk ==
    /\ InLoop
    /\ Top.succ > Len(Successors(TopPred))
    /\ LET a == AfterWalk(Top.result, Top.found,
                          Top.pred = Len(getPredecessors(TopBlock)))
       IN  IF a.return
           THEN Return(a.value)
           ELSE /\ stack' = [stack EXCEPT ![Len(stack)] =
                                [Top EXCEPT !.pred = Top.pred + 1, !.succ = 1,
                                            !.result = a.result, !.found = Null]]
                /\ UNCHANGED <<pc, ret, resolved>>
    /\ UNCHANGED <<edges, root, walked>>

Next ==
    \/ ReturnDefiningOp
    \/ ReturnEntryBlock
    \/ ReturnNoPredecessors
    \/ SkipSuccessor
    \/ Recurse
    \/ StackOverflow
    \/ EndWalk

Spec == Init /\ [][Next]_vars

TypeOK ==
    /\ pc \in {"run", "done", "overflow"}
    /\ ret \in Operations \cup {Null}
    /\ Len(stack) \in 1 .. MaxDepth
    /\ walked \subseteq Blocks

---------------------------------------------------------------------------
\* What the claims speak of.

RootBlock == getOwner(root)

\* The edges into block that pass an operand for its argument.
Contributing(block) ==
    {i \in 1 .. Len(IntoBlock(block)) : IntoBlock(block)[i].operand # NoOperands}

OperandOf(block, i) == IntoBlock(block)[i].operand

\* getDefinition(val) returned def.
ResolvesTo(val, def) == <<val, def>> \in resolved

NoValueTwice ==
    \A i, j \in 1 .. Len(stack) : i # j => stack[i].val # stack[j].val

\* The block arguments among the operands passed for arg.
FedBy(arg) ==
    {edges[i].operand : i \in {j \in 1 .. Len(edges) : edges[j].dst = getOwner(arg)}}
        \cap BlockArguments

RECURSIVE FeedClosure(_, _)
FeedClosure(S, n) ==
    IF n = 0 THEN S ELSE FeedClosure(S \cup UNION {FedBy(a) : a \in S}, n - 1)

\* No block argument is, transitively, fed by its own value.
Acyclic == \A a \in BlockArguments : a \notin FeedClosure(FedBy(a), NumBlocks)

\* C1: the definition of the argument of a non-entry block with exactly one
\* predecessor edge is the definition of the operand passed on that edge.
C1_SinglePredecessor ==
    (/\ pc = "done"
     /\ isBlockArgument(root)
     /\ RootBlock # EntryBlock
     /\ Len(IntoBlock(RootBlock)) = 1
     /\ OperandOf(RootBlock, 1) # NoOperands)
    => ResolvesTo(OperandOf(RootBlock, 1), ret)

\* C2: getDefinition terminates on every graph: a value that is being
\* resolved is never resolved again further down the recursion, so the
\* stack is never exhausted.
C2_BackEdgeNotReentered == pc # "overflow" /\ NoValueTwice

\* C3: when the operands of all contributing edges of a block with two or
\* more predecessors resolve to the same operation X, the definition of the
\* block's argument is X.
C3_AgreeingPredecessors ==
    \A X \in Operations :
        (/\ pc = "done"
         /\ isBlockArgument(root)
         /\ RootBlock # EntryBlock
         /\ Cardinality({getPredecessors(RootBlock)[i] :
                            i \in 1 .. Len(getPredecessors(RootBlock))}) >= 2
         /\ Contributing(RootBlock) # {}
         /\ \A i \in Contributing(RootBlock) : ResolvesTo(OperandOf(RootBlock, i), X))
        => ret = X

\* The block of root has a self-loop passing root unchanged and one other
\* predecessor passing a result of operation X.
SelfLoopCase(X) ==
    /\ isBlockArgument(root)
    /\ RootBlock # EntryBlock
    /\ Len(IntoBlock(RootBlock)) = 2
    /\ \E i, j \in 1 .. 2 :
        /\ i # j
        /\ IntoBlock(RootBlock)[i].src = RootBlock
        /\ OperandOf(RootBlock, i) = root
        /\ IntoBlock(RootBlock)[j].src # RootBlock
        /\ OperandOf(RootBlock, j) = <<"res", X>>

\* C4: with a self-loop passing the argument unchanged and one other
\* predecessor whose operand resolves to X, getDefinition terminates and
\* returns X.
C4_SelfLoopReturnsOther ==
    \A X \in Operations :
        SelfLoopCase(X) =>
            /\ pc # "overflow"
            /\ NoValueTwice
            /\ (pc = "done" => ret = X)

\* Two contributing edges into the block of root whose operands resolved to
\* two different operations.
ConflictCase ==
    /\ isBlockArgument(root)
    /\ RootBlock # EntryBlock
    /\ \E i, j \in Contributing(RootBlock) : \E X, Y \in Operations :
        /\ i # j
        /\ X # Y
        /\ ResolvesTo(OperandOf(RootBlock, i), X)
        /\ ResolvesTo(OperandOf(RootBlock, j), Y)

\* C5: when two predecessors pass operands that resolve to two different
\* operations, the definition of the block argument is Indeterminate, in
\* whatever order the predecessors are visited.
C5_ConflictIsIndeterminate == (pc = "done" /\ ConflictCase) => ret = Null

C5_Witness == pc = "done" /\ ConflictCase

\* Several contributing edges into the block of root, one of whose operands
\* resolved to Indeterminate.
PartialCase ==
    /\ isBlockArgument(root)
    /\ RootBlock # EntryBlock
    /\ Cardinality(Contributing(RootBlock)) >= 2
    /\ \E i \in Contributing(RootBlock) : ResolvesTo(OperandOf(RootBlock, i), Null)

\* C6: when the operand of one contributing predecessor resolves to
\* Indeterminate, the definition of the block argument is Indeterminate,
\* wherever that predecessor stands in the order of the visits.
C6_PartialKnowledge == (pc = "done" /\ PartialCase) => ret = Null

\* Three predecessors: the first and the last pass a result of the same
\* operation, the one in between an operand that resolved to Indeterminate.
C6_Witness ==
    /\ pc = "done"
    /\ PartialCase
    /\ Len(IntoBlock(RootBlock)) = 3
    /\ Cardinality({IntoBlock(RootBlock)[i].src : i \in 1 .. 3}) = 3
    /\ \E X \in Operations :
        /\ OperandOf(RootBlock, 1) = <<"res", X>>
        /\ OperandOf(RootBlock, 3) = <<"res", X>>
    /\ OperandOf(RootBlock, 2) # NoOperands
    /\ ResolvesTo(OperandOf(RootBlock, 2), Null)

\* The block of root is the entry block or has no predecessors.
NoReachingCase ==
    /\ isBlockArgument(root)
    /\ (RootBlock = EntryBlock \/ Len(IntoBlock(RootBlock)) = 0)

\* C7: for an argument of the entry block, or of a block without
\* predecessors, getDefinition returns Indeterminate and looks at no other
\* block and no other value.
C7_EntryOrNoPredecessors ==
    NoReachingCase =>
        /\ walked = {}
        /\ Len(stack) = 1
        /\ resolved \subseteq {<<root, Null>>}
        /\ (pc = "done" => ret = Null)

\* An argument of the entry block, which has a predecessor that passes an
\* operation result.
C7_Witness ==
    /\ pc = "done"
    /\ NoReachingCase
    /\ RootBlock = EntryBlock
    /\ \E i \in Contributing(RootBlock) : OperandOf(RootBlock, i) \in OpResults

\* C8: for the result of an operation getDefinition returns that operation,
\* whatever the graph around it.
C8_DirectResult ==
    /\ (pc = "done" /\ root \in OpResults) => (ret = root[2] /\ ret # Null)
    /\ \A r \in resolved : r[1] \in OpResults => r[2] = r[1][2]

C8_Witness ==
    /\ pc = "done"
    /\ root \in OpResults
    /\ Len(edges) = MaxEdges
    /\ ret = root[2]

AcyclicSafe ==
    Acyclic =>
        /\ pc # "overflow"
        /\ (pc = "done" \/ ENABLED Next)
        /\ NoValueTwice
        /\ Len(stack) - 1 <= Cardinality(BlockArguments)

\* The progress of the calls in progress: the positions of their two loops,
\* the outermost call the most significant, and whether the run is over.
LoopPosition(frame) == (frame.pred - 1) * (MaxEdges + 2) + frame.succ

RECURSIVE Progress(_)
Progress(i) ==
    IF i = 0
    THEN (IF pc = "run" THEN 0 ELSE 1)
    ELSE LoopPosition(stack[i]) * ((MaxEdges + 1) * (MaxEdges + 1)) ^ (MaxDepth - i)
            + Progress(i - 1)

\* C10: on a graph in which no block argument is fed by its own value the
\* call returns: it never exhausts the stack, never stops before it
\* returned, the values being resolved are distinct, the recursive calls
\* in progress are at most as many as the block arguments, and every step
\* advances a bounded measure of progress, so no run goes on for ever.
C10_AcyclicTerminates ==
    /\ [](AcyclicSafe)
    /\ [][Acyclic => Progress(Len(stack))' > Progress(Len(stack))]_vars

\* A chain through every block but the entry block: their arguments are
\* being resolved, the innermost call is on an operation result.
C10_Witness ==
    /\ Acyclic
    /\ pc = "run"
    /\ Len(stack) = Cardinality(BlockArguments)
    /\ isBlockArgument(stack[Len(stack) - 1].val)
    /\ ~isBlockArgument(Top.val)
=============================================================================
